---------------------------- MODULE Spec2Model ----------------------------
(***************************************************************************)
(* State-machine model of the "Out of the World" image decoder             *)
(* (src/src/main.rs): footer parsing, reversed pixel-stream decoding, the  *)
(* per-tile permutation of TiledImage::new, raster assembly, the           *)
(* horizontal flip and the logical crop.                                   *)
(*                                                                         *)
(* Rust indices are 0-based; sequences here are 1-based, so At(s, n) reads *)
(* the element the source writes s[n].  Tile grids and rasters are         *)
(* functions over 0-based coordinates.                                     *)
(***************************************************************************)
EXTENDS Integers, Sequences, FiniteSets

VARIABLES
    pc,              \* position in main / TiledImage::new
    file,            \* content of the input file (never changes)
    data,            \* main: data
    width,           \* main: width
    height,          \* main: height
    logical_width,   \* main: logical_width
    logical_height,  \* main: logical_height
    i,               \* main: next index the reversed, stepped range yields
    pixels,          \* main: pixels (moved into TiledImage::new)
    ni,              \* TiledImage::new: i, the flat read index
    ty,              \* TiledImage::new: ty
    tx,              \* TiledImage::new: tx
    col,             \* TiledImage::new: col of the fill loop
    row,             \* TiledImage::new: row of the fill loop
    tile,            \* TiledImage::new: tile under construction
    tiles,           \* TiledImage::new: tiles
    img,             \* main: img (the full raster)
    k,               \* main: position of `for tile in &tiled.tiles`
    logical,         \* main: the cropped image (second img)
    error            \* "none", or the panic that ended the process

vars == << pc, file, data, width, height, logical_width, logical_height, i,
           pixels, ni, ty, tx, col, row, tile, tiles, img, k, logical, error >>

---------------------------------------------------------------------------
(* Program constants *)

TWIDTH == 8

THEIGHT == 8

FOOTER_LEN == 12

---------------------------------------------------------------------------
(* Bounds of the explored inputs *)

\* widest image, in tiles
MaxTilesX == 2

\* tallest image, in tiles
MaxTilesY == 2

\* longest body of the short inputs, in bytes
MaxShortBody == 7

---------------------------------------------------------------------------
(* Pure helpers *)

At(s, n) == s[n + 1]

Cols == 0 .. (TWIDTH - 1)

Rows == 0 .. (THEIGHT - 1)

Min(a, b) == IF a <= b THEN a ELSE b

\* variant: the two bytes taken high byte first
FromBeBytes(b0, b1) == b0 * 256 + b1

\* u16::from_le_bytes([b0, b1]): b0 is the low byte, b1 the high byte.
FromLeBytes(b0, b1) == b0 + b1 * 256

\* footer = &data[(data.len()-12)..]; width, height, logical_width and
\* logical_height from footer[4..6], [6..8], [8..10], [10..12].
FooterFields(d) ==
    LET footer == SubSeq(d, Len(d) - FOOTER_LEN + 1, Len(d))
    IN  << FromLeBytes(At(footer, 4), At(footer, 5)),
           FromLeBytes(At(footer, 6), At(footer, 7)),
           FromLeBytes(At(footer, 8), At(footer, 9)),
           FromLeBytes(At(footer, 10), At(footer, 11)) >>

\* ((r as u32) << 16) | ((g as u32) << 8) | (b as u32): r, g, b are bytes, so
\* the three shifted fields never overlap and the bitwise OR is their sum.
Pack(r, g, b) == r * 65536 + g * 256 + b

\* variant: the triple read in ascending index order
ColorForward(d, n) == Pack(At(d, n - 2), At(d, n - 1), At(d, n))

\* The colour pushed by one iteration of the decode loop at index n.
Color(d, n) == Pack(At(d, n), At(d, n - 1), At(d, n - 2))

\* to_rgb: masks and shifts of the three channels.
ToRgb(color) == << (color \div 65536) % 256, (color \div 256) % 256, color % 256 >>

ZeroGrid == [c \in Cols |-> [r \in Rows |-> 0]]

NoTile == [offx |-> 0, offy |-> 0, pixels |-> ZeroGrid]

NoImage == [width |-> 0, height |-> 0, px |-> [p \in {} |-> << 0, 0, 0 >>]]

---------------------------------------------------------------------------
(* TiledImage::new: the tile under construction and the four in-place steps *)

\* Tile { offx: tx * TWIDTH, offy: ty * THEIGHT, pixels: [[0u32; 8]; 8] }
NewTileAt(x, y) == [offx |-> x * TWIDTH, offy |-> y * THEIGHT, pixels |-> ZeroGrid]

\* variant: the two indices exchanged
FillCellTransposed(t, c, r, v) == [t EXCEPT !.pixels[r][c] = v]

\* tile.pixels[col][row] = pixels[i]
FillCell(t, c, r, v) == [t EXCEPT !.pixels[c][r] = v]

\* variant: the last store reads [col][row] after it was overwritten
Step2NoSave(g) ==
    [c \in Cols |-> [r \in Rows |->
        IF c % 2 = 0 /\ r % 2 = 0 THEN g[c + 1][r]
        ELSE IF c % 2 = 1 /\ r % 2 = 0 THEN g[c][r + 1]
        ELSE IF c % 2 = 1 /\ r % 2 = 1 THEN g[c - 1][r]
        ELSE g[c + 1][r - 1]]]

\* Rotate each 2x2 sub-section: in the block at even (col, row), with
\* ul = [col][row], ur = [col+1][row], dr = [col+1][row+1], dl = [col][row+1],
\* the code stores [col][row] = ur, [col+1][row] = dr, [col+1][row+1] = dl,
\* [col][row+1] = ul.  The sixteen blocks are disjoint.
Step2(g) ==
    [c \in Cols |-> [r \in Rows |->
        IF c % 2 = 0 /\ r % 2 = 0 THEN g[c + 1][r]
        ELSE IF c % 2 = 1 /\ r % 2 = 0 THEN g[c][r + 1]
        ELSE IF c % 2 = 1 /\ r % 2 = 1 THEN g[c - 1][r]
        ELSE g[c][r - 1]]]

\* variant: no tmp, the lower-left quadrant keeps its values
Step3NoTmp(g) ==
    [c \in Cols |-> [r \in Rows |->
        IF c >= TWIDTH \div 2 /\ r < THEIGHT \div 2
           THEN g[c - TWIDTH \div 2][r + THEIGHT \div 2]
           ELSE g[c][r]]]

\* Swap the upper-right quadrant (col 4..7, row 0..3) with the lower-left one
\* (other_col = col - 4, other_row = row + 4), through tmp.
Step3(g) ==
    [c \in Cols |-> [r \in Rows |->
        IF c >= TWIDTH \div 2 /\ r < THEIGHT \div 2
           THEN g[c - TWIDTH \div 2][r + THEIGHT \div 2]
        ELSE IF c < TWIDTH \div 2 /\ r >= THEIGHT \div 2
           THEN g[c + TWIDTH \div 2][r - THEIGHT \div 2]
        ELSE g[c][r]]]

\* variant: every column stored back where it was read
Step4Same(g) == g

\* In each row: [2] = p4, [3] = p5, [4] = p2, [5] = p3.
Step4(g) ==
    [c \in Cols |-> [r \in Rows |->
        CASE c = 2 -> g[4][r]
          [] c = 3 -> g[5][r]
          [] c = 4 -> g[2][r]
          [] c = 5 -> g[3][r]
          [] OTHER -> g[c][r]]]

\* In each column: [0] = row1, [1] = row3, [2] = row0, [3] = row2 and
\* [4] = row5, [5] = row7, [6] = row4, [7] = row6.
Step5(g) ==
    [c \in Cols |-> [r \in Rows |->
        CASE r = 0 -> g[c][1]
          [] r = 1 -> g[c][3]
          [] r = 2 -> g[c][0]
          [] r = 3 -> g[c][2]
          [] r = 4 -> g[c][5]
          [] r = 5 -> g[c][7]
          [] r = 6 -> g[c][4]
          [] r = 7 -> g[c][6]]]

---------------------------------------------------------------------------
(* The raster: image::RgbImage, flip_horizontal_in_place, crop *)

\* RgbImage::new(width, height): every pixel zero.
NewImage(w, h) ==
    [width |-> w, height |-> h,
     px |-> [p \in (0 .. (w - 1)) \X (0 .. (h - 1)) |-> << 0, 0, 0 >>]]

\* The two loops over col in offx..offx+8, row in offy..offy+8 of one tile:
\* img(col, row) = to_rgb(tile.pixels[col % 8][row % 8]).
Placed(im, t) ==
    [im EXCEPT !.px =
        [p \in DOMAIN im.px |->
            IF /\ p[1] \in t.offx .. (t.offx + TWIDTH - 1)
               /\ p[2] \in t.offy .. (t.offy + THEIGHT - 1)
               THEN ToRgb(t.pixels[p[1] % TWIDTH][p[2] % THEIGHT])
               ELSE im.px[p]]]

\* variant: rows mirrored instead of columns
FlipVertical(im) ==
    [im EXCEPT !.px =
        [p \in DOMAIN im.px |-> im.px[<< p[1], im.height - 1 - p[2] >>]]]

\* flip_horizontal_in_place: column x takes column width-1-x, in every row.
FlipHorizontal(im) ==
    [im EXCEPT !.px =
        [p \in DOMAIN im.px |-> im.px[<< im.width - 1 - p[1], p[2] >>]]]

\* imageops::crop(&mut img, x, y, w, h).to_image(): the image crate clamps
\* the rectangle to the image's bounds and copies it; it never fails.
Crop(im, x, y, w, h) ==
    LET cx == Min(x, im.width)
        cy == Min(y, im.height)
        ch == Min(h, im.height - cy)
        cw == Min(w, im.width - cx)
    IN  [width |-> cw, height |-> ch,
         px |-> [p \in (0 .. (cw - 1)) \X (0 .. (ch - 1)) |->
                    im.px[<< cx + p[1], cy + p[2] >>]]]

---------------------------------------------------------------------------
(* Input files *)

\* body bytes: an arithmetic progression modulo 256
Body(len, a, s) == [j \in 1 .. len |-> (s + a * (j - 1)) % 256]

Patterns == { << 1, 0 >>, << 64, 7 >> }

Reserved == { << 0, 0, 0, 0 >>, << 222, 173, 190, 239 >> }

WidthBytes == { 8 * n : n \in 1 .. MaxTilesX } \cup { 10 }

HeightBytes == { 8 * n : n \in 1 .. MaxTilesY } \cup { 12 }

LogicalPairs == { << 12, 4 >>, << 8, 8 >>, << 8, 20 >> }

\* footers of the short inputs: zero dimensions, one tile, and high bytes set
ShortDims == { << 0, 0, 0, 0, 0, 0, 0, 0 >>,
               << 8, 0, 8, 0, 8, 0, 8, 0 >>,
               << 16, 1, 8, 0, 12, 0, 4, 1 >> }

Truncated ==
    { Body(n, p[1], p[2]) : n \in 0 .. (FOOTER_LEN - 1), p \in Patterns }

ShortBodied ==
    { Body(n, p[1], p[2]) \o res \o d :
        n \in 0 .. MaxShortBody, p \in Patterns, res \in Reserved, d \in ShortDims }

Images ==
    { Body(3 * w * h, p[1], p[2]) \o res \o << w, 0, h, 0, l[1], 0, l[2], 0 >> :
        w \in WidthBytes, h \in HeightBytes, p \in Patterns, res \in Reserved,
        l \in LogicalPairs }

Inputs == Truncated \cup ShortBodied \cup Images

---------------------------------------------------------------------------
(* main: reading, footer, decode loop *)

Init ==
    /\ pc = "read"
    /\ file \in Inputs
    /\ data = << >>
    /\ width = 0
    /\ height = 0
    /\ logical_width = 0
    /\ logical_height = 0
    /\ i = 0
    /\ pixels = << >>
    /\ ni = 0
    /\ ty = 0
    /\ tx = 0
    /\ col = 0
    /\ row = 0
    /\ tile = NoTile
    /\ tiles = << >>
    /\ img = NoImage
    /\ k = 0
    /\ logical = NoImage
    /\ error = "none"

\* let mut data = std::fs::read(&path).unwrap();
ReadFile ==
    /\ pc = "read"
    /\ data' = file
    /\ pc' = "footer"
    /\ UNCHANGED << file, width, height, logical_width, logical_height, i, pixels,
                    ni, ty, tx, col, row, tile, tiles, img, k, logical, error >>

\* footer = &data[(data.len()-12)..] and the four u16::from_le_bytes.
\* data.len()-12 underflows for a buffer shorter than 12 bytes: a debug build
\* panics on the subtraction, a release build wraps and panics on the slice
\* start; either way the process panics here.
ParseFooter ==
    /\ pc = "footer"
    /\ IF Len(data) < FOOTER_LEN
          THEN /\ pc' = "aborted"
               /\ error' = "panic: footer slice"
               /\ UNCHANGED << width, height, logical_width, logical_height >>
          ELSE LET f == FooterFields(data)
               IN  /\ width' = f[1]
                   /\ height' = f[2]
                   /\ logical_width' = f[3]
                   /\ logical_height' = f[4]
                   /\ pc' = "resize"
                   /\ error' = error
    /\ UNCHANGED << file, data, i, pixels, ni, ty, tx, col, row, tile, tiles,
                    img, k, logical >>

\* data.resize(data.len() - 12, 0); the loop range (0..data.len()).rev()
\* starts at data.len() - 1.
Resize ==
    /\ pc = "resize"
    /\ data' = SubSeq(data, 1, Len(data) - FOOTER_LEN)
    /\ i' = Len(data) - FOOTER_LEN - 1
    /\ pc' = "decode"
    /\ UNCHANGED << file, width, height, logical_width, logical_height, pixels,
                    ni, ty, tx, col, row, tile, tiles, img, k, logical, error >>

\* One iteration of `for i in (0..data.len()).rev().step_by(3)`.  data[i] is in
\* range; i - 1 or i - 2 below zero underflows usize (debug: panic on the
\* subtraction, release: wrap and panic on the bounds check).
DecodeStep ==
    /\ pc = "decode"
    /\ i >= 0
    /\ IF i - 2 < 0
          THEN /\ pc' = "aborted"
               /\ error' = "panic: data index"
               /\ UNCHANGED << pixels, i >>
          ELSE /\ pixels' = Append(pixels, Color(data, i))
               /\ i' = i - 3
               /\ UNCHANGED << pc, error >>
    /\ UNCHANGED << file, data, width, height, logical_width, logical_height,
                    ni, ty, tx, col, row, tile, tiles, img, k, logical >>

\* The range is exhausted; TiledImage::new(pixels, width, height) starts.
DecodeDone ==
    /\ pc = "decode"
    /\ i < 0
    /\ pc' = "new"
    /\ ni' = 0
    /\ ty' = 0
    /\ tx' = 0
    /\ tiles' = << >>
    /\ UNCHANGED << file, data, width, height, logical_width, logical_height, i,
                    pixels, col, row, tile, img, k, logical, error >>

---------------------------------------------------------------------------
(* TiledImage::new *)

\* Head of `for ty in 0..(height / THEIGHT) { for tx in 0..(width / TWIDTH)`:
\* a new tile starts while the two ranges are not exhausted.
NewTile ==
    /\ pc = "new"
    /\ ty < height \div THEIGHT
    /\ width \div TWIDTH > 0
    /\ tile' = NewTileAt(tx, ty)
    /\ col' = 0
    /\ row' = 0
    /\ pc' = "fill"
    /\ UNCHANGED << file, data, width, height, logical_width, logical_height, i,
                    pixels, ni, ty, tx, tiles, img, k, logical, error >>

\* One iteration of the fill loops: tile.pixels[col][row] = pixels[i]; i += 1.
\* pixels[i] panics when i is past the end of the vector.
FillPixel ==
    /\ pc = "fill"
    /\ IF ni >= Len(pixels)
          THEN /\ pc' = "aborted"
               /\ error' = "panic: pixels index"
               /\ UNCHANGED << tile, ni, col, row >>
          ELSE /\ tile' = FillCell(tile, col, row, At(pixels, ni))
               /\ ni' = ni + 1
               /\ row' = (row + 1) % THEIGHT
               /\ col' = IF row = THEIGHT - 1 THEN col + 1 ELSE col
               /\ pc' = IF row = THEIGHT - 1 /\ col = TWIDTH - 1 THEN "step2" ELSE "fill"
               /\ error' = error
    /\ UNCHANGED << file, data, width, height, logical_width, logical_height, i,
                    pixels, ty, tx, tiles, img, k, logical >>

RotateBlocks ==
    /\ pc = "step2"
    /\ tile' = [tile EXCEPT !.pixels = Step2(tile.pixels)]
    /\ pc' = "step3"
    /\ UNCHANGED << file, data, width, height, logical_width, logical_height, i,
                    pixels, ni, ty, tx, col, row, tiles, img, k, logical, error >>

SwapQuadrants ==
    /\ pc = "step3"
    /\ tile' = [tile EXCEPT !.pixels = Step3(tile.pixels)]
    /\ pc' = "step4"
    /\ UNCHANGED << file, data, width, height, logical_width, logical_height, i,
                    pixels, ni, ty, tx, col, row, tiles, img, k, logical, error >>

ShuffleColumns ==
    /\ pc = "step4"
    /\ tile' = [tile EXCEPT !.pixels = Step4(tile.pixels)]
    /\ pc' = "step5"
    /\ UNCHANGED << file, data, width, height, logical_width, logical_height, i,
                    pixels, ni, ty, tx, col, row, tiles, img, k, logical, error >>

ShuffleRows ==
    /\ pc = "step5"
    /\ tile' = [tile EXCEPT !.pixels = Step5(tile.pixels)]
    /\ pc' = "push"
    /\ UNCHANGED << file, data, width, height, logical_width, logical_height, i,
                    pixels, ni, ty, tx, col, row, tiles, img, k, logical, error >>

\* tiles.push(tile), then the next tx, or the next ty once the row of tiles ends.
PushTile ==
    /\ pc = "push"
    /\ tiles' = Append(tiles, tile)
    /\ tx' = IF tx + 1 < width \div TWIDTH THEN tx + 1 ELSE 0
    /\ ty' = IF tx + 1 < width \div TWIDTH THEN ty ELSE ty + 1
    /\ pc' = "new"
    /\ UNCHANGED << file, data, width, height, logical_width, logical_height, i,
                    pixels, ni, col, row, tile, img, k, logical, error >>

\* Both ranges are exhausted: TiledImage::new returns.
NewDone ==
    /\ pc = "new"
    /\ ~ (ty < height \div THEIGHT /\ width \div TWIDTH > 0)
    /\ pc' = "image"
    /\ UNCHANGED << file, data, width, height, logical_width, logical_height, i,
                    pixels, ni, ty, tx, col, row, tile, tiles, img, k, logical, error >>

---------------------------------------------------------------------------
(* main: raster assembly, flip, crop *)

\* let mut img = RgbImage::new(width as u32, height as u32);
AllocImage ==
    /\ pc = "image"
    /\ img' = NewImage(width, height)
    /\ k' = 0
    /\ pc' = "assemble"
    /\ UNCHANGED << file, data, width, height, logical_width, logical_height, i,
                    pixels, ni, ty, tx, col, row, tile, tiles, logical, error >>

\* One iteration of `for tile in &tiled.tiles`.  get_pixel_mut panics outside
\* the image's bounds.
PlaceTile ==
    /\ pc = "assemble"
    /\ k < Len(tiles)
    /\ LET t == At(tiles, k)
       IN  IF t.offx + TWIDTH > img.width \/ t.offy + THEIGHT > img.height
              THEN /\ pc' = "aborted"
                   /\ error' = "panic: image index"
                   /\ UNCHANGED << img, k >>
              ELSE /\ img' = Placed(img, t)
                   /\ k' = k + 1
                   /\ UNCHANGED << pc, error >>
    /\ UNCHANGED << file, data, width, height, logical_width, logical_height, i,
                    pixels, ni, ty, tx, col, row, tile, tiles, logical >>

\* flip_horizontal_in_place(&mut img); the flipped image is saved as the
\* full output.
Flip ==
    /\ pc = "assemble"
    /\ k >= Len(tiles)
    /\ img' = FlipHorizontal(img)
    /\ pc' = "crop"
    /\ UNCHANGED << file, data, width, height, logical_width, logical_height, i,
                    pixels, ni, ty, tx, col, row, tile, tiles, k, logical, error >>

\* crop(&mut img, 0, 0, logical_width, logical_height).to_image(), saved as
\* the logical output.
CropLogical ==
    /\ pc = "crop"
    /\ logical' = Crop(img, 0, 0, logical_width, logical_height)
    /\ pc' = "done"
    /\ UNCHANGED << file, data, width, height, logical_width, logical_height, i,
                    pixels, ni, ty, tx, col, row, tile, tiles, img, k, error >>

Next ==
    \/ ReadFile
    \/ ParseFooter
    \/ Resize
    \/ DecodeStep
    \/ DecodeDone
    \/ NewTile
    \/ FillPixel
    \/ RotateBlocks
    \/ SwapQuadrants
    \/ ShuffleColumns
    \/ ShuffleRows
    \/ PushTile
    \/ NewDone
    \/ AllocImage
    \/ PlaceTile
    \/ Flip
    \/ CropLogical

Spec == Init /\ [][Next]_vars

---------------------------------------------------------------------------
(* Vocabulary of the properties *)

Terminal == { "done", "aborted" }

TileStages == { "fill", "step2", "step3", "step4", "step5", "push" }

RasterStages == { "assemble", "crop", "done" }

\* the footer has been parsed
FooterParsed ==
    /\ pc \notin { "read", "footer" }
    /\ error # "panic: footer slice"

\* the decode loop has run to its end
Decoded ==
    \/ pc \in { "new", "image" } \cup TileStages \cup RasterStages
    \/ pc = "aborted" /\ error \in { "panic: pixels index", "panic: image index" }

BodyLen == Len(file) - FOOTER_LEN

\* the tile the fill loops build from the flat sequence for tile number n
Filled(n) ==
    [c \in Cols |-> [r \in Rows |->
        At(pixels, TWIDTH * THEIGHT * n + THEIGHT * c + r)]]

Cells == Cols \X Rows

\* the 64 cells hold 64 different values
Distinct(g) == Cardinality({ g[p[1]][p[2]] : p \in Cells }) = Cardinality(Cells)

TilesAcross == width \div TWIDTH

TilesDown == height \div THEIGHT

ValidDims ==
    /\ width > 0
    /\ height > 0
    /\ width % TWIDTH = 0
    /\ height % THEIGHT = 0

---------------------------------------------------------------------------
(* C1: for a body whose length is a positive multiple of 3, holding n        *)
(* triples, the decode loop ends without a panic having pushed exactly n     *)
(* colours, the k-th being (r<<16)|(g<<8)|b with r = body[len-1-3k],         *)
(* g = body[len-2-3k], b = body[len-3-3k] (compared when the loop has ended  *)
(* and whenever TiledImage::new is at the head of its loops).                *)
C1_DecodeOrder ==
    (Len(file) >= FOOTER_LEN /\ BodyLen > 0 /\ BodyLen % 3 = 0) =>
        /\ error # "panic: data index"
        /\ Decoded => Len(pixels) = BodyLen \div 3
        /\ pc = "new" =>
            \A n \in 0 .. (BodyLen \div 3 - 1) :
                At(pixels, n) =
                    At(file, BodyLen - 1 - 3 * n) * 65536
                    + At(file, BodyLen - 2 - 3 * n) * 256
                    + At(file, BodyLen - 3 - 3 * n)

\* body [B0,G0,R0, B1,G1,R1] = [0,1,2, 3,4,5] decoded to
\* [pack(R1,G1,B1), pack(R0,G0,B0)]
C1_Witness ==
    /\ pc = "new"
    /\ BodyLen = 6
    /\ SubSeq(file, 1, 6) = << 0, 1, 2, 3, 4, 5 >>
    /\ pixels = << 5 * 65536 + 4 * 256 + 3, 2 * 65536 + 1 * 256 + 0 >>

---------------------------------------------------------------------------
(* C2: for a buffer of at least 12 bytes, width, height, logical_width and   *)
(* logical_height are the little-endian 16-bit values of the byte pairs at   *)
(* (len-8,len-7), (len-6,len-5), (len-4,len-3), (len-2,len-1), whatever the  *)
(* four reserved bytes at len-12..len-9 hold (probed right after the parse). *)
ReservedProbes == { << 0, 0, 0, 0 >>, << 255, 255, 255, 255 >>, << 1, 2, 3, 4 >> }

WithReserved(d, res) ==
    [j \in 1 .. Len(d) |->
        IF j \in (Len(d) - FOOTER_LEN + 1) .. (Len(d) - FOOTER_LEN + 4)
           THEN res[j - (Len(d) - FOOTER_LEN)]
           ELSE d[j]]

C2_FooterFields ==
    (FooterParsed /\ Len(file) >= FOOTER_LEN) =>
        LET n == Len(file)
        IN  /\ width = At(file, n - 8) + 256 * At(file, n - 7)
            /\ height = At(file, n - 6) + 256 * At(file, n - 5)
            /\ logical_width = At(file, n - 4) + 256 * At(file, n - 3)
            /\ logical_height = At(file, n - 2) + 256 * At(file, n - 1)
            /\ pc = "resize" =>
                  \A res \in ReservedProbes :
                      FooterFields(WithReserved(file, res))
                          = << width, height, logical_width, logical_height >>

\* the footer [0,0,0,0, 0x10,0x00, 0x08,0x00, 0x0C,0x00, 0x04,0x00]
C2_Witness ==
    /\ pc = "resize"
    /\ SubSeq(file, Len(file) - 11, Len(file))
          = << 0, 0, 0, 0, 16, 0, 8, 0, 12, 0, 4, 0 >>
    /\ width = 16
    /\ height = 8
    /\ logical_width = 12
    /\ logical_height = 4

---------------------------------------------------------------------------
(* C3: the tile that TiledImage::new has taken through Steps 2..5 is the     *)
(* filled tile with its 64 positions permuted: each position of the filled   *)
(* tile is the source of exactly one position of the result, and every value *)
(* occurs in the result as often as in the filled tile.                      *)
IdGrid == [c \in Cols |-> [r \in Rows |-> THEIGHT * c + r]]

\* where each position of the result comes from: the steps applied to a tile
\* that holds its own position numbers
SourceOf == Step5(Step4(Step3(Step2(IdGrid))))

Occurrences(g, v) == Cardinality({ p \in Cells : g[p[1]][p[2]] = v })

C3_Bijective ==
    pc = "push" =>
        LET f == Filled(Len(tiles))
            out == tile.pixels
        IN  /\ \A q \in 0 .. (TWIDTH * THEIGHT - 1) :
                  Cardinality({ p \in Cells : SourceOf[p[1]][p[2]] = q }) = 1
            /\ \A p \in Cells :
                  out[p[1]][p[2]] =
                      f[SourceOf[p[1]][p[2]] \div THEIGHT][SourceOf[p[1]][p[2]] % THEIGHT]
            /\ \A p \in Cells :
                  /\ Occurrences(out, f[p[1]][p[2]]) = Occurrences(f, f[p[1]][p[2]])
                  /\ Occurrences(f, out[p[1]][p[2]]) = Occurrences(out, out[p[1]][p[2]])

\* a finished tile with repeated values that the steps have rearranged
C3_Witness ==
    /\ pc = "push"
    /\ tile.pixels # Filled(Len(tiles))
    /\ ~ Distinct(Filled(Len(tiles)))

---------------------------------------------------------------------------
(* C4: with a width or height that is not a multiple of 8, decoding fails    *)
(* with InvalidDimensions before any tile is constructed: no tile is built   *)
(* and no raster is produced.                                                *)
C4_DimensionsValidated ==
    (FooterParsed /\ (width % TWIDTH # 0 \/ height % THEIGHT # 0)) =>
        /\ pc \notin TileStages
        /\ tiles = << >>
        /\ pc \notin RasterStages
        /\ pc \in Terminal => error = "InvalidDimensions"

---------------------------------------------------------------------------
(* C5: a buffer shorter than 12 bytes, or a body whose length is not a       *)
(* multiple of 3, fails with MalformedInput, and the failure is reported     *)
(* before the decode loop reaches an index below which the triple does not   *)
(* fit.                                                                      *)
Malformed == Len(file) < FOOTER_LEN \/ BodyLen % 3 # 0

C5_MalformedRejected ==
    Malformed =>
        /\ ~ (pc = "decode" /\ i >= 0 /\ i - 2 < 0)
        /\ pc \in Terminal => error = "MalformedInput"

---------------------------------------------------------------------------
(* C6: with logical_width > width or logical_height > height producing the   *)
(* logical raster fails with InvalidDimensions, so a run ends normally, with *)
(* a logical raster, only when logical_width <= width and                    *)
(* logical_height <= height, and the logical raster is then the upper-left   *)
(* logical_width x logical_height rectangle of the mirrored full raster.     *)
C6_CropChecked ==
    pc = "done" =>
        /\ logical_width <= width
        /\ logical_height <= height
        /\ error = "none"
        /\ logical.width = logical_width
        /\ logical.height = logical_height
        /\ \A p \in (0 .. (logical_width - 1)) \X (0 .. (logical_height - 1)) :
              logical.px[p] = img.px[p]

---------------------------------------------------------------------------
(* C7: for width and height positive multiples of 8, every raster position   *)
(* lies in exactly one tile (so is written by exactly one tile, col, row),   *)
(* col % 8 and row % 8 over the absolute ranges are the local coordinates,   *)
(* and after the flip the full raster holds at (width-1-(offx+col),          *)
(* offy+row) the three channels (bits 16-23, 8-15, 0-7) of the tile's pixel  *)
(* at local (col, row).                                                      *)
C7_Raster ==
    (pc \in { "crop", "done" } /\ ValidDims) =>
        /\ img.width = width
        /\ img.height = height
        /\ \A p \in (0 .. (width - 1)) \X (0 .. (height - 1)) :
              Cardinality({ n \in 1 .. Len(tiles) :
                  /\ p[1] - tiles[n].offx \in Cols
                  /\ p[2] - tiles[n].offy \in Rows }) = 1
        /\ \A n \in 1 .. Len(tiles) :
              LET t == tiles[n]
              IN  /\ \A c \in t.offx .. (t.offx + TWIDTH - 1) : c % TWIDTH = c - t.offx
                  /\ \A r \in t.offy .. (t.offy + THEIGHT - 1) : r % THEIGHT = r - t.offy
                  /\ \A p \in Cells :
                        LET v == t.pixels[p[1]][p[2]]
                        IN  img.px[<< width - 1 - (t.offx + p[1]), t.offy + p[2] >>]
                              = << (v \div 65536) % 256, (v \div 256) % 256, v % 256 >>

\* a four-tile image: the last tile's pixel (3, 5) at raster (15-(8+3), 8+5)
C7_Witness ==
    /\ pc = "done"
    /\ width = 16
    /\ height = 16
    /\ Len(tiles) = 4
    /\ tiles[4].offx = 8
    /\ tiles[4].offy = 8
    /\ img.px[<< 4, 13 >>] = ToRgb(tiles[4].pixels[3][5])
    /\ img.px[<< 4, 13 >>] # img.px[<< 11, 13 >>]

---------------------------------------------------------------------------
(* C8: Step 2 assigns UL'=UR, UR'=DR, DR'=DL, DL'=UL in each aligned 2x2     *)
(* block; applied twice it gives the 180-degree rotation of every block (UL  *)
(* and DR exchanged, UR and DL exchanged), which differs from the tile       *)
(* whenever some block is not symmetric under that exchange; followed by its *)
(* inverse, or applied four times, it restores the tile.                     *)
EvenCells == { p \in Cells : p[1] % 2 = 0 /\ p[2] % 2 = 0 }

\* UL'=DL, UR'=UL, DR'=UR, DL'=DR
Step2Inverse(g) ==
    [c \in Cols |-> [r \in Rows |->
        IF c % 2 = 0 /\ r % 2 = 0 THEN g[c][r + 1]
        ELSE IF c % 2 = 1 /\ r % 2 = 0 THEN g[c - 1][r]
        ELSE IF c % 2 = 1 /\ r % 2 = 1 THEN g[c][r - 1]
        ELSE g[c + 1][r]]]

\* UL and DR exchanged, UR and DL exchanged
HalfTurn(g) ==
    [c \in Cols |-> [r \in Rows |-> g[c + 1 - 2 * (c % 2)][r + 1 - 2 * (r % 2)]]]

C8_Step2RoundTrip ==
    pc = "step3" =>
        LET f == Filled(Len(tiles))
            t == tile.pixels
        IN  /\ \A p \in EvenCells :
                  LET c == p[1]
                      r == p[2]
                  IN  /\ t[c][r] = f[c + 1][r]
                      /\ t[c + 1][r] = f[c + 1][r + 1]
                      /\ t[c + 1][r + 1] = f[c][r + 1]
                      /\ t[c][r + 1] = f[c][r]
            /\ Step2(t) = HalfTurn(f)
            /\ (HalfTurn(f) # f) => (Step2(t) # f)
            /\ Step2Inverse(t) = f
            /\ Step2(Step2(Step2(t))) = f

\* a tile of 64 distinct values just rotated: twice is not the identity
C8_Witness ==
    /\ pc = "step3"
    /\ Distinct(Filled(Len(tiles)))
    /\ tile.pixels # Filled(Len(tiles))
    /\ Step2(tile.pixels) # Filled(Len(tiles))
    /\ Step2Inverse(tile.pixels) = Filled(Len(tiles))

---------------------------------------------------------------------------
(* C9: for width and height positive multiples of 8 and width*height         *)
(* colours, TiledImage::new builds (width/8)*(height/8) tiles in row-major   *)
(* grid order, tile k at offset ((k mod (width/8))*8, (k div (width/8))*8),  *)
(* its cell (col,row) filled from flat[64*k + 8*col + row]; the flat index   *)
(* advances by one per cell, never passes the end and ends at width*height.  *)
C9_Tiling ==
    (pc \in { "new", "image" } \cup TileStages \cup RasterStages
        /\ ValidDims /\ Len(pixels) = width * height) =>
        LET n == Len(tiles)
        IN  /\ error = "none"
            /\ n <= TilesAcross * TilesDown
            /\ \A m \in 0 .. (n - 1) :
                  /\ At(tiles, m).offx = (m % TilesAcross) * 8
                  /\ At(tiles, m).offy = (m \div TilesAcross) * 8
            /\ pc \in TileStages =>
                  /\ n < TilesAcross * TilesDown
                  /\ tile.offx = (n % TilesAcross) * 8
                  /\ tile.offy = (n \div TilesAcross) * 8
            /\ pc = "fill" =>
                  /\ ni = 64 * n + 8 * col + row
                  /\ ni < Len(pixels)
                  /\ \A p \in Cells :
                        8 * p[1] + p[2] < 8 * col + row =>
                            tile.pixels[p[1]][p[2]] = At(pixels, 64 * n + 8 * p[1] + p[2])
            /\ pc = "step2" =>
                  /\ ni = 64 * (n + 1)
                  /\ \A p \in Cells :
                        tile.pixels[p[1]][p[2]] = At(pixels, 64 * n + 8 * p[1] + p[2])
            /\ pc = "new" => ni = 64 * n
            /\ pc \in { "image" } \cup RasterStages =>
                  /\ n = TilesAcross * TilesDown
                  /\ ni = width * height

\* the fourth tile of a 16x16 image, just filled
C9_Witness ==
    /\ pc = "step2"
    /\ width = 16
    /\ height = 16
    /\ Len(pixels) = 256
    /\ Len(tiles) = 3
    /\ tile.offx = 8
    /\ tile.offy = 8
    /\ tile.pixels[2][5] = At(pixels, 64 * 3 + 8 * 2 + 5)
    /\ tile.pixels[2][5] # tile.pixels[5][2]

---------------------------------------------------------------------------
(* C10: the order of Steps 2..5 matters only in part.  An ordering of the    *)
(* four steps gives the tile TiledImage::new builds, for every tile, when    *)
(* step 3 comes before step 4 and step 2 before step 5 (six orderings: steps *)
(* 2 and 3 commute, as do 4 and 5); each of the other eighteen orderings     *)
(* gives a different tile whenever the 64 values are distinct.  Of the       *)
(* adjacent pairs only 3 and 4 cannot be exchanged.                          *)
Orderings ==
    { o \in [1 .. 4 -> { 2, 3, 4, 5 }] : \A a, b \in 1 .. 4 : a # b => o[a] # o[b] }

ApplyStep(s, g) ==
    CASE s = 2 -> Step2(g)
      [] s = 3 -> Step3(g)
      [] s = 4 -> Step4(g)
      [] s = 5 -> Step5(g)

ApplyOrder(o, g) == ApplyStep(o[4], ApplyStep(o[3], ApplyStep(o[2], ApplyStep(o[1], g))))

Place(o, s) == CHOOSE a \in 1 .. 4 : o[a] = s

SameAsSource(o) == Place(o, 3) < Place(o, 4) /\ Place(o, 2) < Place(o, 5)

C10_OrderPartlySignificant ==
    pc = "push" =>
        LET f == Filled(Len(tiles))
        IN  \A o \in Orderings :
                IF SameAsSource(o)
                   THEN ApplyOrder(o, f) = tile.pixels
                   ELSE Distinct(f) => ApplyOrder(o, f) # tile.pixels

\* a tile of 64 distinct values: 2,3,5,4 and 3,2,4,5 rebuild it, 2,4,3,5 does not
C10_Witness ==
    /\ pc = "push"
    /\ Distinct(Filled(Len(tiles)))
    /\ ApplyOrder(<< 2, 3, 5, 4 >>, Filled(Len(tiles))) = tile.pixels
    /\ ApplyOrder(<< 3, 2, 4, 5 >>, Filled(Len(tiles))) = tile.pixels
    /\ ApplyOrder(<< 2, 4, 3, 5 >>, Filled(Len(tiles))) # tile.pixels

\* C10 as stated: every ordering other than 2,3,4,5 changes the result on a
\* tile of 64 distinct values.  The steps move values by position only, so an
\* ordering that rebuilds one such tile rebuilds every tile.
C10_EveryOrderDiffers ==
    (pc = "push" /\ Distinct(Filled(Len(tiles)))) =>
        \A o \in Orderings \ { << 2, 3, 4, 5 >> } :
            ApplyOrder(o, Filled(Len(tiles))) # tile.pixels

===========================================================================
